---- MODULE Spec2Model ----
(***************************************************************************)
(* Model of marcia/Archive/kernels.py: the Kernels class.                  *)
(*                                                                         *)
(*   Kernels.__init__  validates the number of data arrays, then loops     *)
(*                     over all ordered task pairs, building one grid per  *)
(*                     pair with i <= j through KcMM and filling the two   *)
(*                     dictionaries CovMat and data_tau.                   *)
(*   Kernels.KcMM      enumerates the work items of one pair, maps the     *)
(*                     integrand over them with a multiprocessing Pool and *)
(*                     wraps the reshaped integrals in an interpolator.      *)
(*   Kernels.__call__  evaluates the cached interpolators and assembles    *)
(*                     the block matrix; it may run in several threads.    *)
(*                                                                         *)
(* Numbers: np.linspace(lo, hi, n) is kept exact by storing every          *)
(* coordinate as its numerator over the common denominator n - 1.          *)
(* Integrals and interpolated values are kept symbolic: a record naming    *)
(* what was computed from what.                                            *)
(***************************************************************************)
EXTENDS Integers, Sequences, FiniteSets, TLC

\* ------------------------------------------------------------------ bounds
MaxTasks == 2      \* configured task counts 1..MaxTasks
MaxObs == 2        \* observations per task 1..MaxObs
NPoints == 2       \* MTGP['n_points'], the grid resolution
NWorkers == 2      \* processes of the Pool
MaxLabelTasks == 12  \* task counts whose pair labels are compared
NThreads == 2      \* threads that may invoke __call__

\* ------------------------------------------------------- program constants
TauMin == -10
TauMax == 10

\* ----------------------------------------------------------------- inputs
\* The smoothness values of the configuration: the squared-exponential
\* sentinel, 5/2 and 7/2.
NuValues == {"0.0", "2.5", "3.5"}

\* (l_min, l_max) of the tasks' length-scale axes: the same for every task,
\* or wider from task to task.
LRangeConfigs(n) == {[k \in 1..n |-> <<1, 2>>], [k \in 1..n |-> <<1, 1 + k>>]}

\* The x-axis of task k with m observation points.
XArray(k, m) == [a \in 1..m |-> a * a + k]

Min(a, b) == IF a < b THEN a ELSE b

\* The data passed to the constructor, nd arrays: every task with MaxObs
\* observations, or counts rising from task to task, or counts falling.
DataConfigs(nd) ==
    {[k \in 1..nd |-> XArray(k, MaxObs)],
     [k \in 1..nd |-> XArray(k, Min(k, MaxObs))],
     [k \in 1..nd |-> XArray(k, MaxObs + 1 - Min(k, MaxObs))]}

\* The ParameterMatrix values passed to __call__: r rows of (amplitude,
\* length-scale), with fewer, as many and more rows than any task count.
ParamMatrix(r, s) == [k \in 1..r |-> <<s * k, s + k>>]

ParamMatrices == {ParamMatrix(r, s) : r \in 0..(MaxTasks + 1), s \in 1..2}

Threads == 1..NThreads

\* The smoothness values gMdef is evaluated for on its own: those of the
\* configuration, a positive real of the general Matern regime, and values
\* of no regime (a negative real, a string that is no number).
GMdefNus == NuValues \cup {"1.5", "-1.0", "abc"}

\* The lags and length scales gMdef is evaluated for on its own.
GMdefTaus == {-1, 0, 1}
GMdefLs == {1, 2}

VARIABLES
    nTasks,      \* self.nTasks = self.nmodel
    nus,         \* self.nus, one per task
    lranges,     \* MTGP['Task_k'] l_min, l_max, one per task
    data,        \* self.data, the per-task x-axes
    pc,          \* position of the constructor
    err,         \* the exception the constructor raised
    i, j,        \* the loop counters of __init__
    nu1, nu2,    \* self.nu1, self.nu2
    CovMat,      \* self.CovMat: label -> interpolator
    data_tau,    \* self.data_tau: label -> lag matrix
    CovMat_all,  \* self.CovMat_all
    poolParams,  \* KcMM: params, the work items in dispatch order
    poolAxes,    \* KcMM: (tau_values, l2_values, l1_values)
    nextItem,    \* Pool: number of chunks handed to a worker so far
    inflight,    \* Pool: the chunks being computed
    integrals,   \* KcMM: integrals, one slot per work item
    poolErr,     \* Pool: whether a worker raised
    reordered,   \* history: a chunk came back before an earlier one
    kcmmCalls,   \* history: the pairs KcMM was called for, in order
    tpc,         \* per thread: position in __call__
    tpars,       \* per thread: the ParameterMatrix passed
    tret,        \* per thread: what __call__ returned or raised
    fname,       \* the function evaluated on its own: gMdef or the label
    fargs,       \* its arguments
    fres         \* what it did, <<>> before it ran

cfgVars == <<nTasks, nus, lranges, data>>
ctorVars == <<pc, err, i, j, nu1, nu2, CovMat, data_tau, kcmmCalls>>
poolVars == <<poolParams, poolAxes, nextItem, inflight, integrals, poolErr, reordered>>
callVars == <<CovMat_all, tpc, tpars, tret>>
pureVars == <<fname, fargs, fres>>
vars == <<cfgVars, ctorVars, poolVars, callVars, pureVars>>

\* ------------------------------------------------------------ dictionaries
NoDict == [k \in {} |-> 0]

DictHas(d, k) == k \in DOMAIN d

DictSet(d, k, v) == [x \in DOMAIN d \cup {k} |-> IF x = k THEN v ELSE d[x]]

\* ------------------------------------------------------------------ labels
\* The decimal digits of a natural number, as str() prints them.
RECURSIVE Digits(_)
Digits(n) == IF n < 10 THEN <<n>> ELSE Digits(n \div 10) \o <<n % 10>>

\* f't_{i}{j}': the two indices printed one after the other.
Label(a, b) == Digits(a) \o Digits(b)

\* --------------------------------------------------------------- the grid
\* np.linspace(lo, hi, n), each value as its numerator over n - 1.
Linspace(lo, hi, n) == [k \in 1..n |-> lo * (n - 1) + (k - 1) * (hi - lo)]

\* itertools.product(xs, ys, zs) as a list: the last axis varies fastest.
Product(xs, ys, zs) ==
    [k \in 1..(Len(xs) * Len(ys) * Len(zs)) |->
        <<xs[((k - 1) \div (Len(ys) * Len(zs))) + 1],
          ys[(((k - 1) \div Len(zs)) % Len(ys)) + 1],
          zs[((k - 1) % Len(zs)) + 1]>>]

\* np.zeros, flattened: n slots holding 0.
NpZeros(n) == [k \in 1..n |-> 0]

\* np.array(flat).reshape((d1, d2, d3)): row-major.
Reshape(flat, d1, d2, d3) ==
    [idx \in (1..d1) \X (1..d2) \X (1..d3) |->
        flat[((idx[1] - 1) * d2 + (idx[2] - 1)) * d3 + idx[3]]]

\* What gMdef(tau, nu, l1) can do for a smoothness value: the sentinel
\* branch is a plain exponential; the 5/2 branch and the general branch call
\* the bare names _spkv_ and _spgamma_, which are methods, not globals; the
\* 7/2 branch returns what the backend kernel returns, or raises with it.
GMdefOutcomesNamesBound(nu) ==
    CASE nu = "0.0" -> {"value"}
      [] OTHER -> {"value", "raise"}

GMdefOutcomes(nu) ==
    CASE nu = "0.0" -> {"value"}
      [] nu = "2.5" -> {"raise"}
      [] nu = "3.5" -> {"value", "raise"}
      [] OTHER -> {"raise"}

\* The branch of gMdef's if/elif chain that nu selects: the else branch
\* takes every value the three comparisons reject.
GMdefBranch(nu) ==
    CASE nu = "0.0" -> "squared-exponential"
      [] nu = "2.5" -> "matern-5/2"
      [] nu = "3.5" -> "matern-7/2"
      [] OTHER -> "general"

\* gMMdef_integrand(params): the work item is unpacked as tau, l1, l2 and
\* the integral pairs self.nu1 with l1 and self.nu2 with l2.
GMMdefIntegrand(params, n1, n2) ==
    LET tau == params[1]
        l1 == params[2]
        l2 == params[3]
    IN  [tau |-> tau, f1 |-> <<n1, l1>>, f2 |-> <<n2, l2>>]

\* Whether the integrand can return, and whether it can raise: the product
\* evaluates both gMdef factors.
IntegrandOutcomes(n1, n2) ==
    (IF "value" \in GMdefOutcomes(n1) /\ "value" \in GMdefOutcomes(n2)
     THEN {"value"} ELSE {})
    \cup
    (IF "raise" \in GMdefOutcomes(n1) \/ "raise" \in GMdefOutcomes(n2)
     THEN {"raise"} ELSE {})

\* RegularGridInterpolator((tau_values, l2_values, l1_values), integrals).
Interpolator(axes, values) == [kind |-> "rgi", axes |-> axes, values |-> values]

\* np.transpose of an object that is no array: a 0-d object array.
NpTranspose(obj) == [kind |-> "ndarray0d", axes |-> obj.axes, values |-> obj.values]

\* data[i][:, None] - data[j][None, :]
LagMatrix(xi, xj) == [a \in 1..Len(xi) |-> [b \in 1..Len(xj) |-> xi[a] - xj[b]]]

\* ------------------------------------------------------------------- Init
Init ==
    /\ nTasks \in 1..MaxTasks
    /\ nus \in [1..nTasks -> NuValues]
    /\ lranges \in LRangeConfigs(nTasks)
    /\ \E nd \in 1..MaxTasks : data \in DataConfigs(nd)
    /\ pc = "new"
    /\ err = "none"
    /\ i = 0
    /\ j = 0
    /\ nu1 = "none"
    /\ nu2 = "none"
    /\ CovMat = NoDict
    /\ data_tau = NoDict
    /\ CovMat_all = [error |-> "none", matrix |-> <<>>]
    /\ poolParams = <<>>
    /\ poolAxes = <<>>
    /\ nextItem = 0
    /\ inflight = {}
    /\ integrals = <<>>
    /\ poolErr = FALSE
    /\ reordered = FALSE
    /\ kcmmCalls = <<>>
    /\ tpc = [t \in Threads |-> "idle"]
    /\ tpars = [t \in Threads |-> <<>>]
    /\ tret = [t \in Threads |-> [error |-> "none", matrix |-> <<>>]]
    /\ fname = "none"
    /\ fargs = <<>>
    /\ fres = <<>>

\* ------------------------------------------------------------ constructor
\* a check that only rejects too few data arrays
CountsMatchAtLeast == Len(data) >= nTasks

\* line 53: len(self.data) != self.nmodel, negated.
CountsMatch == Len(data) = nTasks

\* __init__, lines 26-62: read the configuration, keep the data, compare the
\* number of data arrays with the number of tasks, create the dictionaries.
Construct ==
    /\ pc = "new"
    /\ IF ~CountsMatch
       THEN /\ pc' = "raised"
            /\ err' = "ValueError"
       ELSE /\ pc' = "loop"
            /\ err' = err
    /\ UNCHANGED <<pureVars, cfgVars, i, j, nu1, nu2, CovMat, data_tau, kcmmCalls,
                   poolVars, callVars>>

\* The position after (a, b) in the two nested loops over range(nmodel).
AfterPair(a, b) ==
    IF b + 1 < nTasks THEN <<"loop", a, b + 1>>
    ELSE IF a + 1 < nTasks THEN <<"loop", a + 1, 0>>
    ELSE <<"ready", a, b>>

\* One iteration of the loop body, lines 66-79, up to the call of KcMM
\* (i <= j) or through the else branch (i > j).  The else branch reads
\* data_tau[t_ij] and CovMat[t_ij] and stores under t_ji.
LoopStep ==
    /\ pc = "loop"
    /\ nu1' = nus[i + 1]
    /\ nu2' = nus[j + 1]
    /\ IF i <= j
       THEN LET l1_values == Linspace(lranges[i + 1][1], lranges[i + 1][2], NPoints)
                l2_values == Linspace(lranges[j + 1][1], lranges[j + 1][2], NPoints)
                tau_values == Linspace(TauMin, TauMax, NPoints)
            IN  /\ pc' = "build"
                /\ poolAxes' = <<tau_values, l2_values, l1_values>>
                /\ poolParams' = Product(tau_values, l2_values, l1_values)
                /\ nextItem' = 0
                /\ inflight' = {}
                /\ integrals' = NpZeros(NPoints * NPoints * NPoints)
                /\ poolErr' = FALSE
                /\ reordered' = FALSE
                /\ kcmmCalls' = Append(kcmmCalls, <<i, j>>)
                /\ UNCHANGED <<err, i, j, CovMat, data_tau>>
       ELSE /\ IF ~DictHas(data_tau, Label(i, j)) \/ ~DictHas(CovMat, Label(i, j))
               THEN /\ pc' = "raised"
                    /\ err' = "KeyError"
                    /\ data_tau' = IF DictHas(data_tau, Label(i, j))
                                   THEN DictSet(data_tau, Label(j, i), data_tau[Label(i, j)])
                                   ELSE data_tau
                    /\ UNCHANGED <<i, j, CovMat>>
               ELSE /\ data_tau' = DictSet(data_tau, Label(j, i), data_tau[Label(i, j)])
                    /\ CovMat' = DictSet(CovMat, Label(j, i), NpTranspose(CovMat[Label(i, j)]))
                    /\ pc' = AfterPair(i, j)[1]
                    /\ i' = AfterPair(i, j)[2]
                    /\ j' = AfterPair(i, j)[3]
                    /\ err' = err
            /\ UNCHANGED <<poolVars, kcmmCalls>>
    /\ UNCHANGED <<pureVars, cfgVars, callVars>>

\* ------------------------------------------------------------------ KcMM
\* Pool.map cuts the list of work items into chunks of
\* ceil(len / (4 * processes)) items; a chunk is one task of the pool.
ChunkSize(n) ==
    LET q == n \div (4 * NWorkers)
        r == n % (4 * NWorkers)
    IN  IF r > 0 THEN q + 1 ELSE q

NChunks(n) == (n + ChunkSize(n) - 1) \div ChunkSize(n)

\* The work items of chunk c, as indices into params.
ChunkItems(c, n) ==
    {k \in 1..n : (c - 1) * ChunkSize(n) < k /\ k <= c * ChunkSize(n)}

\* The pool hands the chunks to its workers in list order; a worker holds
\* one chunk at a time.
WorkerTake ==
    /\ pc = "build"
    /\ nextItem < NChunks(Len(poolParams))
    /\ Cardinality(inflight) < NWorkers
    /\ nextItem' = nextItem + 1
    /\ inflight' = inflight \cup {nextItem + 1}
    /\ UNCHANGED <<pureVars, cfgVars, ctorVars, poolParams, poolAxes, integrals, poolErr, reordered,
                   callVars>>

\* An imap_unordered-like collection: the chunk goes to the next free place.
ChunkSlotByArrival(c) == nextItem - Cardinality(inflight) + 1

\* Pool.map returns the results in the order of the work items: the results
\* of chunk c are stored at chunk position c of the list.
ChunkSlot(c) == c

\* The list of integrals after the values of chunk c have come back.
StoreChunk(c) ==
    LET n == Len(poolParams)
        shift == (ChunkSlot(c) - c) * ChunkSize(n)
    IN  [k \in 1..n |->
            IF k - shift \in ChunkItems(c, n)
            THEN GMMdefIntegrand(poolParams[k - shift], nu1, nu2)
            ELSE integrals[k]]

\* A worker returns the integrals of its chunk, or raises.  Workers finish in
\* any order.  The map keeps the list of integrals until the first exception
\* and the exception from then on: the list is gone, its slots read 0 here.
WorkerFinish(c) ==
    /\ pc = "build"
    /\ c \in inflight
    /\ inflight' = inflight \ {c}
    /\ reordered' = (reordered \/ \E d \in inflight : d < c)
    /\ \E outcome \in IntegrandOutcomes(nu1, nu2) :
          IF outcome = "value"
          THEN /\ integrals' = IF poolErr THEN integrals ELSE StoreChunk(c)
               /\ poolErr' = poolErr
          ELSE /\ poolErr' = TRUE
               /\ integrals' = NpZeros(Len(poolParams))
    /\ UNCHANGED <<pureVars, cfgVars, ctorVars, poolParams, poolAxes, nextItem, callVars>>

\* A map_async-like return: every item was handed out, not every one is back.
PoolDispatchedAll == nextItem = NChunks(Len(poolParams))

\* a worker error swallowed by the caller
PoolFailedNever == FALSE

\* pool.map blocks until every work item has returned or raised.
PoolJoined == nextItem = NChunks(Len(poolParams)) /\ inflight = {}

\* pool.map re-raises a worker's exception in the caller.
PoolFailed == poolErr

\* The end of KcMM, lines 140-142, and the rest of the loop body, lines 74
\* and 76: the exception of a worker leaves KcMM and __init__; otherwise the
\* list is reshaped, wrapped in the interpolator and stored with the lag
\* matrix under the pair's label, and the locals of KcMM are gone.
KcMMReturn ==
    /\ pc = "build"
    /\ PoolJoined
    /\ IF PoolFailed
       THEN /\ pc' = "raised"
            /\ err' = "WorkerError"
            /\ UNCHANGED <<i, j, CovMat, data_tau, poolParams, poolAxes, integrals>>
       ELSE LET dense == Reshape(integrals, Len(poolAxes[1]), Len(poolAxes[2]),
                                     Len(poolAxes[3]))
            IN  /\ CovMat' = DictSet(CovMat, Label(i, j), Interpolator(poolAxes, dense))
                /\ data_tau' = DictSet(data_tau, Label(i, j),
                                       LagMatrix(data[i + 1], data[j + 1]))
                /\ pc' = AfterPair(i, j)[1]
                /\ i' = AfterPair(i, j)[2]
                /\ j' = AfterPair(i, j)[3]
                /\ err' = err
                /\ poolParams' = <<>>
                /\ poolAxes' = <<>>
                /\ integrals' = <<>>
    /\ UNCHANGED <<pureVars, cfgVars, nu1, nu2, kcmmCalls, nextItem, inflight, poolErr, reordered,
                   callVars>>

\* --------------------------------------------------------------- __call__
Scalar(x) == [shape |-> "scalar", v |-> x]

Matrix(m) == [shape |-> "matrix", v |-> m]

\* a lookup with one coordinate for each axis of the grid
QueryPointPerAxis(pars, a, b) ==
    <<Matrix(data_tau[Label(a, b)]), Scalar(pars[b + 1][2]), Scalar(pars[a + 1][2])>>

\* The argument of the interpolator at line 89: a list of the product of the
\* two length-scales and the lag matrix of the pair.
QueryPoint(pars, a, b) ==
    <<Scalar(pars[a + 1][2] * pars[b + 1][2]), Matrix(data_tau[Label(a, b)])>>

\* The matrix components of a query give the shape of the answer.
QueryRows(xi) ==
    LET ms == {c \in 1..Len(xi) : xi[c].shape = "matrix"}
    IN  IF ms = {} THEN 1 ELSE Len(xi[CHOOSE c \in ms : TRUE].v)

QueryCols(xi) ==
    LET ms == {c \in 1..Len(xi) : xi[c].shape = "matrix"}
    IN  IF ms = {} THEN 1 ELSE Len(xi[CHOOSE c \in ms : TRUE].v[1])

\* Calling the object stored in CovMat: an array is not callable, and a
\* RegularGridInterpolator rejects a query whose number of components is not
\* the number of its axes.
InterpError(obj, xi) ==
    IF obj.kind # "rgi" THEN "TypeError"
    ELSE IF Len(xi) # Len(obj.axes) THEN "ValueError"
    ELSE "none"

\* The interpolated values, one for each element of the broadcast query.
InterpValue(key, xi) ==
    [a \in 1..QueryRows(xi) |-> [b \in 1..QueryCols(xi) |->
        [key |-> key,
         at |-> [c \in 1..Len(xi) |->
                    IF xi[c].shape = "scalar" THEN xi[c].v ELSE xi[c].v[a][b]]]]]

\* One element of the nested list at line 89, in the order Python evaluates
\* it: pars[i,0] and pars[j,0], self.CovMat[...], the argument list with
\* pars[i,1], pars[j,1] and self.data_tau[...], then the call.
ElementError(pars, a, b) ==
    IF a + 1 > Len(pars) \/ b + 1 > Len(pars) THEN "IndexError"
    ELSE IF ~DictHas(CovMat, Label(a, b)) THEN "KeyError"
    ELSE IF ~DictHas(data_tau, Label(a, b)) THEN "KeyError"
    ELSE InterpError(CovMat[Label(a, b)], QueryPoint(pars, a, b))

\* pars[i,0] * pars[j,0] * interpolated values, elementwise.
ElementValue(pars, a, b) ==
    LET vals == InterpValue(Label(a, b), QueryPoint(pars, a, b))
    IN  [r \in 1..Len(vals) |-> [c \in 1..Len(vals[r]) |->
            [amp |-> pars[a + 1][1] * pars[b + 1][1], k |-> vals[r][c]]]]

\* The elements in evaluation order: the outer list runs over j, the inner
\* list over i.
ElementOrder == [k \in 1..(nTasks * nTasks) |-> <<(k - 1) % nTasks, (k - 1) \div nTasks>>]

\* The exception of the first element that raises, or "none".
FirstError(pars) ==
    LET bad == {k \in 1..(nTasks * nTasks) :
                   ElementError(pars, ElementOrder[k][1], ElementOrder[k][2]) # "none"}
    IN  IF bad = {} THEN "none"
        ELSE LET k == CHOOSE x \in bad : \A y \in bad : x <= y
             IN  ElementError(pars, ElementOrder[k][1], ElementOrder[k][2])

RECURSIVE ConcatAll(_)
ConcatAll(ss) == IF ss = <<>> THEN <<>> ELSE Head(ss) \o ConcatAll(Tail(ss))

\* np.block of a nested list: the blocks of an inner list are joined side by
\* side and must have the same number of rows; the joined rows are stacked
\* and must have the same width.
NpBlockError(rows) ==
    IF \E r \in 1..Len(rows) : \E c \in 1..Len(rows[r]) :
           Len(rows[r][c]) # Len(rows[r][1])
    THEN "ValueError"
    ELSE IF \E r \in 1..Len(rows) :
                Len(ConcatAll([c \in 1..Len(rows[r]) |-> rows[r][c][1]]))
                    # Len(ConcatAll([c \in 1..Len(rows[1]) |-> rows[1][c][1]]))
    THEN "ValueError"
    ELSE "none"

NpBlock(rows) ==
    ConcatAll([r \in 1..Len(rows) |->
        [x \in 1..Len(rows[r][1]) |->
            ConcatAll([c \in 1..Len(rows[r]) |-> rows[r][c][x]])]])

\* The nested list of line 89: inner list j holds the elements of the pairs
\* (0, j), (1, j), ...
BlockList(pars) ==
    [b \in 1..nTasks |-> [a \in 1..nTasks |-> ElementValue(pars, a - 1, b - 1)]]

\* What evaluating the right-hand side of line 89 gives: an exception or the
\* assembled matrix.
CovEval(pars) ==
    IF FirstError(pars) # "none" THEN [error |-> FirstError(pars), matrix |-> <<>>]
    ELSE IF NpBlockError(BlockList(pars)) # "none"
    THEN [error |-> NpBlockError(BlockList(pars)), matrix |-> <<>>]
    ELSE [error |-> "none", matrix |-> NpBlock(BlockList(pars))]

\* The index in ElementOrder of the first element that raises, or the number
\* of elements when none does.
LastEvaluated(pars) ==
    LET bad == {k \in 1..(nTasks * nTasks) :
                   ElementError(pars, ElementOrder[k][1], ElementOrder[k][2]) # "none"}
    IN  IF bad = {} THEN nTasks * nTasks
        ELSE CHOOSE x \in bad : \A y \in bad : x <= y

\* The pairs whose subscription self.CovMat[f't_{i}{j}'] found its key while
\* line 89 was evaluated: those of the elements up to the first one that
\* raises, unless pars[i,0] or pars[j,0] raised before the subscription.
CovMatLookups(pars) ==
    {ElementOrder[k] : k \in {x \in 1..LastEvaluated(pars) :
        /\ ElementOrder[x][1] + 1 <= Len(pars)
        /\ ElementOrder[x][2] + 1 <= Len(pars)
        /\ DictHas(CovMat, Label(ElementOrder[x][1], ElementOrder[x][2]))}}

\* a lookup that takes the entry out of the dictionary, as dict.pop does
CacheAfterPops(d, pairs) ==
    [x \in DOMAIN d \ {Label(p[1], p[2]) : p \in pairs} |-> d[x]]

\* self.CovMat after the subscriptions of line 89: a subscription reads.
CacheAfterLookups(d, pairs) == d

\* A thread invokes __call__ on the constructed object.
CallBegin(t, pars) ==
    /\ pc = "ready"
    /\ tpc[t] = "idle"
    /\ tpc' = [tpc EXCEPT ![t] = "eval"]
    /\ tpars' = [tpars EXCEPT ![t] = pars]
    /\ UNCHANGED <<pureVars, cfgVars, ctorVars, poolVars, CovMat_all, tret>>

\* line 90: return self.CovMat_all
Returned(t) == CovMat_all

\* The steps of __call__ in a thread: line 89 evaluates the block matrix and
\* stores it in self.CovMat_all, or raises; line 90 reads the attribute back
\* and returns it.
CallStep(t) ==
    /\ tpc[t] \in {"eval", "stored"}
    /\ IF tpc[t] = "eval"
       THEN LET out == CovEval(tpars[t])
            IN  IF out.error # "none"
                THEN /\ tpc' = [tpc EXCEPT ![t] = "raised"]
                     /\ tret' = [tret EXCEPT ![t] = out]
                     /\ CovMat_all' = CovMat_all
                ELSE /\ tpc' = [tpc EXCEPT ![t] = "stored"]
                     /\ tret' = tret
                     /\ CovMat_all' = out
       ELSE /\ tpc' = [tpc EXCEPT ![t] = "returned"]
            /\ tret' = [tret EXCEPT ![t] = Returned(t)]
            /\ CovMat_all' = CovMat_all
    /\ CovMat' = IF tpc[t] = "eval"
                 THEN CacheAfterLookups(CovMat, CovMatLookups(tpars[t]))
                 ELSE CovMat
    /\ UNCHANGED <<pureVars, cfgVars, pc, err, i, j, nu1, nu2, data_tau, kcmmCalls, poolVars, tpars>>

Next ==
    \/ Construct
    \/ LoopStep
    \/ WorkerTake
    \/ \E c \in 1..NChunks(NPoints * NPoints * NPoints) : WorkerFinish(c)
    \/ KcMMReturn
    \/ \E t \in Threads : \E pars \in ParamMatrices : CallBegin(t, pars)
    \/ \E t \in Threads : CallStep(t)

Spec == Init /\ [][Next]_vars

\* ------------------------------------------- functions evaluated on their own
\* No object is under construction: the functions are applied to arguments.
InitPure ==
    /\ nTasks = 1
    /\ nus = <<"0.0">>
    /\ lranges = <<<<1, 2>>>>
    /\ data = <<XArray(1, 1)>>
    /\ pc = "new"
    /\ err = "none"
    /\ i = 0
    /\ j = 0
    /\ nu1 = "none"
    /\ nu2 = "none"
    /\ CovMat = NoDict
    /\ data_tau = NoDict
    /\ CovMat_all = [error |-> "none", matrix |-> <<>>]
    /\ poolParams = <<>>
    /\ poolAxes = <<>>
    /\ nextItem = 0
    /\ inflight = {}
    /\ integrals = <<>>
    /\ poolErr = FALSE
    /\ reordered = FALSE
    /\ kcmmCalls = <<>>
    /\ tpc = [t \in Threads |-> "idle"]
    /\ tpars = [t \in Threads |-> <<>>]
    /\ tret = [t \in Threads |-> [error |-> "none", matrix |-> <<>>]]
    /\ fres = <<>>
    /\ \/ /\ fname = "gMdef"
          /\ fargs \in GMdefTaus \X GMdefNus \X GMdefLs
       \/ /\ fname = "label"
          /\ fargs \in {<<a, b, c, d>> : a \in 0..(MaxLabelTasks - 1), b \in 0..(MaxLabelTasks - 1),
                                         c \in 0..(MaxLabelTasks - 1), d \in 0..(MaxLabelTasks - 1)}

\* gMdef(tau, nu, l1): the branch nu selects, and whether it returned.
GMdefCall ==
    /\ fname = "gMdef"
    /\ fres = <<>>
    /\ \E out \in GMdefOutcomes(fargs[2]) : fres' = <<GMdefBranch(fargs[2]), out>>
    /\ UNCHANGED <<cfgVars, ctorVars, poolVars, callVars, fname, fargs>>

\* f't_{i}{j}' for the pairs (fargs[1], fargs[2]) and (fargs[3], fargs[4]).
LabelCall ==
    /\ fname = "label"
    /\ fres = <<>>
    /\ fres' = <<Label(fargs[1], fargs[2]), Label(fargs[3], fargs[4])>>
    /\ UNCHANGED <<cfgVars, ctorVars, poolVars, callVars, fname, fargs>>

NextPure ==
    \/ GMdefCall
    \/ LabelCall

SpecPure == InitPure /\ [][NextPure]_vars

\* ------------------------------------------------------------ the claims
Tasks == 0..(nTasks - 1)

\* m_k, the number of observations of task k.
Obs(k) == Len(data[k + 1])

RECURSIVE ObsBefore(_)
ObsBefore(k) == IF k = 0 THEN 0 ELSE ObsBefore(k - 1) + Obs(k - 1)

TotalObs == ObsBefore(nTasks)

\* block (a, b) of an assembled matrix: block-row a, block-column b.
BlockAt(m, a, b) ==
    [r \in 1..Obs(a) |-> [c \in 1..Obs(b) |-> m[ObsBefore(a) + r][ObsBefore(b) + c]]]

Transpose(m) ==
    IF m = <<>> THEN <<>>
    ELSE [c \in 1..Len(m[1]) |-> [r \in 1..Len(m) |-> m[r][c]]]

NegTranspose(m) ==
    IF m = <<>> THEN <<>>
    ELSE [c \in 1..Len(m[1]) |-> [r \in 1..Len(m) |-> 0 - m[r][c]]]

CtorEnded == pc \in {"ready", "raised"}

CallEnded(t) == tpc[t] \in {"returned", "raised"}

ValidPars(t) == Len(tpars[t]) = nTasks

HasShape(m, rows, cols) == Len(m) = rows /\ \A r \in 1..Len(m) : Len(m[r]) = cols

\* C1: whenever a call with a valid ParameterMatrix has ended on a constructed
\* assembler, it has returned a matrix in which block (a, b) is the transpose
\* of block (b, a) for all tasks a and b.
C1_Symmetry ==
    \A t \in Threads :
        (CallEnded(t) /\ ValidPars(t)) =>
            /\ tpc[t] = "returned"
            /\ tret[t].error = "none"
            /\ HasShape(tret[t].matrix, TotalObs, TotalObs)
            /\ \A a \in Tasks : \A b \in Tasks :
                  BlockAt(tret[t].matrix, a, b) = Transpose(BlockAt(tret[t].matrix, b, a))

\* The entry (r, c) of block (a, b) as C2 states it: the product of the two
\* amplitudes times the interpolated kernel of pair (a, b) at the product of
\* the two length-scales and the lag x_a[r] - x_b[c].
ClaimedEntry(pars, a, b, r, c) ==
    [amp |-> pars[a + 1][1] * pars[b + 1][1],
     k |-> [key |-> Label(a, b),
            at |-> <<pars[a + 1][2] * pars[b + 1][2],
                     LagMatrix(data[a + 1], data[b + 1])[r][c]>>]]

\* C2: whenever a call with a valid ParameterMatrix has ended, it has returned
\* a matrix of shape (sum m, sum m) whose block at block-row a and
\* block-column b has m_a rows and m_b columns and holds
\* amplitude_a * amplitude_b * kernel_ab(l_a * l_b, lag_ab).
C2_BlockPlacement ==
    \A t \in Threads :
        (CallEnded(t) /\ ValidPars(t)) =>
            /\ tpc[t] = "returned"
            /\ tret[t].error = "none"
            /\ HasShape(tret[t].matrix, TotalObs, TotalObs)
            /\ \A a \in Tasks : \A b \in Tasks :
                  \A r \in 1..Obs(a) : \A c \in 1..Obs(b) :
                      BlockAt(tret[t].matrix, a, b)[r][c]
                          = ClaimedEntry(tpars[t], a, b, r, c)

\* C3: when the number of data arrays differs from the task count, the
\* constructor has raised before any KcMM call, pool or work item started.
C3_MismatchRaisesBeforeBuild ==
    (Len(data) # nTasks /\ pc # "new") =>
        /\ pc = "raised"
        /\ err = "ValueError"
        /\ kcmmCalls = <<>>
        /\ poolParams = <<>>
        /\ nextItem = 0
        /\ inflight = {}
        /\ CovMat = NoDict

C3_Witness == Len(data) # nTasks /\ pc = "raised"

\* C4: a call with a ParameterMatrix whose number of rows is not the task
\* count never stores or returns a matrix: once it has left line 89 it has
\* raised.
C4_RowMismatchEndsInError ==
    \A t \in Threads :
        (Len(tpars[t]) # nTasks /\ tpc[t] \notin {"idle", "eval"}) =>
            /\ tpc[t] = "raised"
            /\ tret[t].error # "none"
            /\ tret[t].matrix = <<>>

C4_Witness ==
    \E t \in Threads : \E u \in Threads :
        /\ tpc[t] = "raised" /\ Len(tpars[t]) < nTasks
        /\ tpc[u] = "raised" /\ Len(tpars[u]) > nTasks

\* The pairs with a <= b in loop order.
UpperPairs == {<<a, b>> \in Tasks \X Tasks : a <= b}

\* C5: a constructor that has ended with matching counts and without a
\* worker error is ready and has made exactly n(n+1)/2 grid builds, one for
\* each pair a <= b and none for a pair a > b.
C5_AllPairsBuilt ==
    (CtorEnded /\ Len(data) = nTasks /\ ~poolErr) =>
        /\ pc = "ready"
        /\ 2 * Len(kcmmCalls) = nTasks * (nTasks + 1)
        /\ {kcmmCalls[k] : k \in 1..Len(kcmmCalls)} = UpperPairs

\* C6: a constructor that has ended with matching counts and without a worker
\* error has stored a lag matrix for every ordered pair, x_a[r] - x_b[c] for
\* a <= b, and for a < b the matrix of (b, a) is the negative transpose of
\* the matrix of (a, b).
C6_LagMatrices ==
    (CtorEnded /\ Len(data) = nTasks /\ ~poolErr) =>
        \A a \in Tasks : \A b \in Tasks :
            /\ DictHas(data_tau, Label(a, b))
            /\ a <= b => data_tau[Label(a, b)] = LagMatrix(data[a + 1], data[b + 1])
            /\ a < b => /\ DictHas(data_tau, Label(b, a))
                        /\ data_tau[Label(b, a)] = NegTranspose(data_tau[Label(a, b)])

\* The pairs whose grid has been built and stored.
BuiltPairs == {p \in UpperPairs : DictHas(CovMat, Label(p[1], p[2]))}

Grid(p) == CovMat[Label(p[1], p[2])]

\* C7: in every stored grid the value at index (a, b, c) is the integral of
\* the work item (tau_values[a], l2_values[b], l1_values[c]), whatever the
\* order in which the workers finished, and two grids built from the same
\* coordinates and nu values are equal.
C7_GridOrder ==
    /\ \A p \in BuiltPairs :
          \A idx \in DOMAIN Grid(p).values :
              Grid(p).values[idx]
                  = GMMdefIntegrand(<<Grid(p).axes[1][idx[1]], Grid(p).axes[2][idx[2]],
                                      Grid(p).axes[3][idx[3]]>>,
                                    nus[p[1] + 1], nus[p[2] + 1])
    /\ \A p \in BuiltPairs : \A q \in BuiltPairs :
          (/\ Grid(p).axes = Grid(q).axes
           /\ nus[p[1] + 1] = nus[q[1] + 1]
           /\ nus[p[2] + 1] = nus[q[2] + 1]) => Grid(p).values = Grid(q).values

\* Two grids of the same coordinates and nu values stored, the second one
\* after its chunks came back out of order.
C7_Witness ==
    /\ reordered
    /\ pc # "build"
    /\ \E p \in BuiltPairs : \E q \in BuiltPairs :
          /\ p # q
          /\ Grid(p).axes = Grid(q).axes
          /\ nus[p[1] + 1] = nus[q[1] + 1]
          /\ nus[p[2] + 1] = nus[q[2] + 1]

\* C8: under every interleaving, a call that has ended in a thread with a
\* valid ParameterMatrix has returned the matrix computed from that thread's
\* own parameters.
C8_ConcurrentCalls ==
    \A t \in Threads :
        (CallEnded(t) /\ ValidPars(t)) =>
            /\ tpc[t] = "returned"
            /\ tret[t].error = "none"
            /\ tret[t].matrix # <<>>
            /\ tret[t] = CovEval(tpars[t])

\* C9: an interpolator enters CovMat only in a step taken when every chunk of
\* the pair's len(tau) * len(l2) * len(l1) work items has been handed out and
\* none is still being computed, and a thread is inside __call__ only when
\* the constructor is done and the grid of every pair a <= b is stored.
C9_Barrier ==
    /\ [](\A t \in Threads :
            tpc[t] # "idle" =>
               /\ pc = "ready"
               /\ \A p \in UpperPairs :
                     DictHas(CovMat, Label(p[1], p[2])) /\ Grid(p).kind = "rgi")
    /\ [][(CovMat' # CovMat) =>
             /\ pc = "build"
             /\ Len(poolParams) = NPoints * NPoints * NPoints
             /\ nextItem * ChunkSize(Len(poolParams)) >= Len(poolParams)
             /\ inflight = {}]_vars

C9_Witness ==
    /\ \E t \in Threads : tpc[t] # "idle"
    /\ BuiltPairs # {}

\* C10: once a worker has raised, no interpolator is stored and no further
\* KcMM call is made, the constructor stays in the failing build until it
\* raises the worker's error, it never becomes ready and no call begins.
C10_WorkerFailureAborts ==
    [][poolErr =>
          /\ poolErr'
          /\ pc' \in {"build", "raised"}
          /\ pc' = "raised" => err' = "WorkerError"
          /\ CovMat' = CovMat
          /\ data_tau' = data_tau
          /\ kcmmCalls' = kcmmCalls
          /\ \A t \in Threads : tpc'[t] = "idle"]_vars

C10_Witness == poolErr /\ pc = "raised" /\ err = "WorkerError" /\ Len(kcmmCalls) = 1

\* C11: every step of a call, whether the call raises or returns, leaves the
\* interpolator cache and the lag matrices as they were, calls KcMM for no
\* pair and touches no pool; from the ready state on nothing but
\* self.CovMat_all and the threads change.
C11_CallsLeaveCacheAlone ==
    [][(tpc' # tpc \/ pc = "ready") =>
          /\ pc = "ready"
          /\ pc' = "ready"
          /\ CovMat' = CovMat
          /\ data_tau' = data_tau
          /\ kcmmCalls' = kcmmCalls
          /\ poolVars' = poolVars]_vars

\* Two calls have run to their end, one after a lookup in the cache.
C11_Witness ==
    /\ \A t \in Threads : tpc[t] = "raised"
    /\ \E t \in Threads : CovMatLookups(tpars[t]) # {}
    /\ BuiltPairs # {}

\* C13: in the stored grid of pair (a, b) the entry at index (x, y, z) is the
\* integral at lag tau_values[x] whose two factors are the basis function of
\* nu_a at task a's length-scale l1_values[z] and the basis function of nu_b
\* at task b's length-scale l2_values[y]; the convolution does not depend on
\* the order of its two factors, so they are compared as a set.
C13_AxisPairing ==
    \A p \in BuiltPairs :
        \A idx \in DOMAIN Grid(p).values :
            /\ Grid(p).values[idx].tau = Grid(p).axes[1][idx[1]]
            /\ {Grid(p).values[idx].f1, Grid(p).values[idx].f2}
                  = {<<nus[p[1] + 1], Grid(p).axes[3][idx[3]]>>,
                     <<nus[p[2] + 1], Grid(p).axes[2][idx[2]]>>}

\* C15: every lookup a call has made in the cached interpolator of a pair
\* passed as many components as the interpolator has axes, in the order of
\* the axes: the lag matrix of the pair first, then one length-scale for the
\* l2 axis and one for the l1 axis.
C15_LookupMatchesAxes ==
    \A t \in Threads :
        tpc[t] \notin {"idle", "eval"} =>
            \A p \in CovMatLookups(tpars[t]) :
                DictHas(data_tau, Label(p[1], p[2])) =>
                    LET xi == QueryPoint(tpars[t], p[1], p[2])
                    IN  /\ Len(xi) = Len(Grid(p).axes)
                        /\ xi[1] = Matrix(data_tau[Label(p[1], p[2])])
                        /\ \A c \in 2..Len(xi) : xi[c].shape = "scalar"

\* C12: a smoothness value of no recognized regime never makes gMdef
\* return a value: the evaluation ends in an error.
RecognizedNus == {"0.0", "2.5", "3.5", "1.5"}

C14_LabelsDistinct ==
    (fname = "label" /\ fres # <<>> /\ <<fargs[1], fargs[2]>> # <<fargs[3], fargs[4]>>)
        => fres[1] # fres[2]

====
